---- MODULE Spec2Model ----
(***************************************************************************)
(* Model of screenpipe-audio/src/core.rs: record_and_transcribe.           *)
(*                                                                         *)
(* Processes of one call c of record_and_transcribe:                       *)
(*   - the coordinator (the async fn body, lines 159-312), position cpc[c] *)
(*   - the session thread (the closure of thread::spawn, lines 192-273),   *)
(*     position tpc[c]                                                     *)
(*   - the data callback of the stream (lines 196-204 and its three        *)
(*     copies), position cb[c]                                             *)
(*   - the error callback (lines 181-189), one atomic step                 *)
(* The caller owns the Run Signal is_running and may clear it at any time. *)
(* Wall-clock time is counted in ticks of one poll interval (100 ms).      *)
(***************************************************************************)
EXTENDS Integers, Sequences, FiniteSets, TLC

\* ---------------------------------------------------------------- bounds
MaxDuration == 1
MaxStart == 1
MaxBuf == 2
MaxChunk == 4
MaxParts == 3
MaxNonFatal == 1

\* ------------------------------------------------------ program constants
PollIntervalMs == 100
MsPerSecond == 1000
SampleBytesF32 == 4

TicksPerSec == MsPerSecond \div PollIntervalMs
\* the model starts MaxStart ticks before the end of a wall-clock second and
\* a call may start until the last tick of that second: the calls start in
\* every one of the last MaxStart + 1 phases of a second
FirstTick == TicksPerSec - 1 - MaxStart
LastStart == TicksPerSec - 1
\* every poll loop that starts by LastStart has reached its duration by then;
\* a call entered with the Run Signal clear does not poll and may start later
MaxTime == TicksPerSec * (MaxDuration + 1)

Calls == {1, 2}
Durations == 0..MaxDuration
SupportedFormats == {"I8", "I16", "I32", "F32"}
Formats == SupportedFormats \cup {"U16"}
ResolveErrors == {"EnumerationError", "DeviceNotFound", "ConfigError"}

VARIABLES
    now,          \* wall clock, in ticks of PollIntervalMs
    is_running,   \* the Run Signal (Arc<AtomicBool>) the caller passes in
    cpc,          \* cpc[c]: position of the coordinator of call c
    tpc,          \* tpc[c]: position of the session thread of call c
    cb,           \* cb[c]: position of the data callback of call c's stream
    audio_data,   \* audio_data[c]: the Vec<f32> allocated by call c
    fmt,          \* fmt[c]: config.sample_format() of call c
    start,        \* start[c]: start_time of call c, in ticks
    dur,          \* dur[c]: duration.as_secs() of call c
    result,       \* result[c]: what call c returned
    startErr,     \* startErr[c]: start failure logged by the session thread
    invalidated,  \* invalidated[c]: "Audio device disconnected" was logged
    sends,        \* sends[c]: number of whisper_sender.send calls of call c
    channel,      \* packages the downstream channel accepted, in order
    receiverOpen, \* the receiving half of the channel still exists
    chunk,        \* chunk[c]: samples handed to the data callback in flight
    pendingErrors, \* non-fatal stream errors the platform has yet to report
    dpc,          \* position of the descriptor computation
    text,         \* a device string given to parse_audio_device
    desc,         \* an AudioDevice built by AudioDevice::new
    parsed,       \* AudioDevice::from_name(text)
    shown,        \* desc.to_string()
    reparsed,     \* AudioDevice::from_name(desc.to_string())
    lookup        \* how get_device_and_config looks desc up

descVars == <<dpc, text, desc, parsed, shown, reparsed, lookup>>

vars == <<now, is_running, cpc, tpc, cb, audio_data, fmt, start, dur, result,
          startErr, invalidated, sends, channel, receiverOpen, chunk,
          pendingErrors, descVars>>

\* ---------------------------------------------------------------- helpers

\* chrono's timestamp(): whole seconds of an instant given in ticks
Timestamp(t) == t \div TicksPerSec

\* size_of::<T>() of the sample type of each supported format
SampleBytes(f) ==
    CASE f = "I8" -> 1
      [] f = "I16" -> 2
      [] f = "I32" -> 4
      [] f = "F32" -> 4
      [] OTHER -> 0

\* bytemuck::cast_slice::<T, f32> of n samples: the number of f32 elements,
\* or -1 when the cast panics (the bytes do not fill whole f32 values, or the
\* input slice is not aligned for f32)
CastLen(f, n, aligned) ==
    IF (n * SampleBytes(f)) % SampleBytesF32 # 0 THEN -1
    ELSE IF SampleBytes(f) < SampleBytesF32 /\ ~aligned THEN -1
    ELSE (n * SampleBytes(f)) \div SampleBytesF32

\* the samples a callback of call c's stream delivers, tagged with the stream
Samples(c, k) == [i \in 1..k |-> c]

\* BufOf as it would be if the buffer were one static shared by all calls
BufOf_Shared(c) == 1

\* the buffer the callbacks and the coordinator of call c use (line 174: a
\* fresh Arc<Mutex<Vec>> per call)
BufOf(c) == c

\* the stream object s exists: built and not yet dropped
StreamLive(c) == tpc[c] \in {"play", "keepalive", "release"}

\* call c is between its entry and its return
InCall(c) == cpc[c] \notin {"never", "idle", "returned"}

\* LoadWeak as it would be if the closures did not consult the flag's value
LoadWeak_Always(c) == InCall(c)

\* Weak::upgrade().map_or(false, |arc| arc.load()): the coordinator holds a
\* strong reference to is_running until it returns
LoadWeak(c) == IF InCall(c) THEN is_running ELSE FALSE

\* get_device_and_config: the order in which the failures are detected
GetDeviceAndConfig(enumOk, found, configOk) ==
    IF ~enumOk THEN "EnumerationError"
    ELSE IF ~found THEN "DeviceNotFound"
    ELSE IF ~configOk THEN "ConfigError"
    ELSE "Ok"

\* packages of call c in the channel
PackagesOf(c) == {i \in 1..Len(channel) : channel[i].device = c}

\* what is common to every initial state: nothing has run yet
InitCommon ==
    /\ now = FirstTick
    /\ tpc = [c \in Calls |-> "none"]
    /\ cb = [c \in Calls |-> "idle"]
    /\ audio_data = [c \in Calls |-> <<>>]
    /\ start = [c \in Calls |-> 0]
    /\ result = [c \in Calls |-> "none"]
    /\ startErr = [c \in Calls |-> "none"]
    /\ invalidated = [c \in Calls |-> FALSE]
    /\ sends = [c \in Calls |-> 0]
    /\ channel = <<>>
    /\ receiverOpen = TRUE
    /\ chunk = [c \in Calls |-> 0]

\* ------------------------------------------------------- device descriptor
\* A string is a sequence of one-character strings.

Chars_input == <<"(", "i", "n", "p", "u", "t", ")">>
Chars_output == <<"(", "o", "u", "t", "p", "u", "t", ")">>
Chars_default == <<"d", "e", "f", "a", "u", "l", "t">>

\* the pieces the names and the device strings of the model are made of
Pieces ==
    { <<" ">>,
      <<"M", "i", "c">>,
      Chars_input,
      <<"(", "I", "n", "p", "u", "t", ")">>,
      Chars_output,
      <<"(", "O", "U", "T", "P", "U", "T", ")">>,
      Chars_default }

RECURSIVE Concat(_)
Concat(ps) == IF ps = <<>> THEN <<>> ELSE Head(ps) \o Concat(Tail(ps))

\* every string of at most MaxParts pieces
Texts == {Concat(ps) : ps \in UNION {[1..n -> Pieces] : n \in 0..MaxParts}}

DeviceTypes == {"Input", "Output"}

\* char::to_lowercase on the letters of the model's alphabet
Lower(ch) ==
    CASE ch = "I" -> "i"
      [] ch = "M" -> "m"
      [] ch = "N" -> "n"
      [] ch = "O" -> "o"
      [] ch = "P" -> "p"
      [] ch = "T" -> "t"
      [] ch = "U" -> "u"
      [] OTHER -> ch

\* str::to_lowercase
ToLowercase(str) == [i \in 1..Len(str) |-> Lower(str[i])]

\* char::is_whitespace
IsWhitespace(ch) == ch = " "

RECURSIVE TrimStart(_)
TrimStart(str) ==
    IF str # <<>> /\ IsWhitespace(Head(str)) THEN TrimStart(Tail(str)) ELSE str

RECURSIVE TrimEnd(_)
TrimEnd(str) ==
    IF str # <<>> /\ IsWhitespace(str[Len(str)])
    THEN TrimEnd(SubSeq(str, 1, Len(str) - 1))
    ELSE str

\* str::trim
Trim(str) == TrimEnd(TrimStart(str))

\* str::ends_with
EndsWith(str, suffix) ==
    /\ Len(str) >= Len(suffix)
    /\ SubSeq(str, Len(str) - Len(suffix) + 1, Len(str)) = suffix

\* str::trim_end_matches: the suffix is removed as often as it matches
RECURSIVE TrimEndMatches(_, _)
TrimEndMatches(str, pat) ==
    IF EndsWith(str, pat)
    THEN TrimEndMatches(SubSeq(str, 1, Len(str) - Len(pat)), pat)
    ELSE str

\* str::replace(pat, ""): every non-overlapping match, from the left
RECURSIVE Remove(_, _)
Remove(str, pat) ==
    IF Len(str) < Len(pat) THEN str
    ELSE IF SubSeq(str, 1, Len(pat)) = pat
         THEN Remove(SubSeq(str, Len(pat) + 1, Len(str)), pat)
         ELSE <<Head(str)>> \o Remove(Tail(str), pat)

\* AudioDevice::new
NewDevice(name, device_type) == [name |-> name, device_type |-> device_type]

\* the results of from_name
OkDevice(name, device_type) ==
    [ok |-> TRUE, name |-> name, device_type |-> device_type, err |-> "none"]
ErrDevice(err) ==
    [ok |-> FALSE, name |-> <<>>, device_type |-> "none", err |-> err]
NoResult == ErrDevice("not computed")

\* FromName as it would be without the trim of the stripped name
FromName_NoTrim(name) ==
    IF Trim(name) = <<>> THEN ErrDevice("empty")
    ELSE IF EndsWith(ToLowercase(name), Chars_input)
         THEN OkDevice(TrimEndMatches(name, Chars_input), "Input")
    ELSE IF EndsWith(ToLowercase(name), Chars_output)
         THEN OkDevice(TrimEndMatches(name, Chars_output), "Output")
    ELSE ErrDevice("no type")

\* lines 62-85: AudioDevice::from_name
FromName(name) ==
    IF Trim(name) = <<>> THEN ErrDevice("empty")
    ELSE IF EndsWith(ToLowercase(name), Chars_input)
         THEN OkDevice(Trim(TrimEndMatches(name, Chars_input)), "Input")
    ELSE IF EndsWith(ToLowercase(name), Chars_output)
         THEN OkDevice(Trim(TrimEndMatches(name, Chars_output)), "Output")
    ELSE ErrDevice("no type")

\* lines 87-99: Display for AudioDevice, "{} ({})"
to_string(d) ==
    d.name \o <<" ">> \o
    (IF d.device_type = "Input" THEN Chars_input ELSE Chars_output)

\* line 115: the test that selects the default-device branch
UsesDefaultBranch(d) == to_string(d) = Chars_default

\* lines 139-143: the name the enumerated devices are compared with
MatchKey(d) ==
    Trim(Remove(Remove(to_string(d), <<" ">> \o Chars_input),
                <<" ">> \o Chars_output))

NoLookup == [default |-> FALSE, key |-> <<>>]
NoDevice == NewDevice(<<>>, "Input")

\* the descriptor computation is not part of the run
InitDescOff ==
    /\ dpc = "off"
    /\ text = <<>>
    /\ desc = NoDevice
    /\ parsed = NoResult
    /\ shown = <<>>
    /\ reparsed = NoResult
    /\ lookup = NoLookup

\* one call of record_and_transcribe, with any duration, any negotiated
\* sample format and the Run Signal set or already cleared
Init ==
    /\ InitCommon
    /\ InitDescOff
    /\ is_running \in BOOLEAN
    /\ cpc = [c \in Calls |-> IF c = 1 THEN "idle" ELSE "never"]
    /\ dur \in [Calls -> Durations]
    /\ fmt \in [Calls -> Formats]
    /\ \A c \in Calls : cpc[c] = "never" => dur[c] = 0 /\ fmt[c] = "F32"
    /\ pendingErrors = MaxNonFatal

\* two calls on the same device (the same negotiated format), sequential or
\* overlapping, sharing the Run Signal
InitPair ==
    /\ InitCommon
    /\ InitDescOff
    /\ is_running \in BOOLEAN
    /\ cpc = [c \in Calls |-> "idle"]
    /\ dur = [c \in Calls |-> 0]
    /\ fmt \in {[c \in Calls |-> f] : f \in {"F32"}}
    /\ pendingErrors = 0

\* ------------------------------------------------------------ coordinator

\* Resolve as it would be if the error path cleared the Run Signal
Resolve_StopOnError(c) ==
    /\ cpc[c] = "idle"
    /\ now <= LastStart \/ ~is_running
    /\ \E enumOk, found, configOk \in BOOLEAN :
        LET r == GetDeviceAndConfig(enumOk, found, configOk) IN
        IF r # "Ok"
        THEN /\ cpc' = [cpc EXCEPT ![c] = "returned"]
             /\ result' = [result EXCEPT ![c] = r]
             /\ is_running' = FALSE
             /\ UNCHANGED <<start, audio_data>>
        ELSE /\ cpc' = [cpc EXCEPT ![c] = "resolved"]
             /\ start' = [start EXCEPT ![c] = now]
             /\ audio_data' = [audio_data EXCEPT ![BufOf(c)] = <<>>]
             /\ UNCHANGED <<result, is_running>>
    /\ UNCHANGED <<now, tpc, cb, fmt, dur, startErr, invalidated,
                   sends, channel, receiverOpen>>
    /\ UNCHANGED <<chunk, pendingErrors, descVars>>

\* lines 165-178: resolve the device; on failure return the error, otherwise
\* read the configuration, take start_time and allocate the buffer
Resolve(c) ==
    /\ cpc[c] = "idle"
    /\ now <= LastStart \/ ~is_running
    /\ \E enumOk, found, configOk \in BOOLEAN :
        LET r == GetDeviceAndConfig(enumOk, found, configOk) IN
        IF r # "Ok"
        THEN /\ cpc' = [cpc EXCEPT ![c] = "returned"]
             /\ result' = [result EXCEPT ![c] = r]
             /\ UNCHANGED <<start, audio_data>>
        ELSE /\ cpc' = [cpc EXCEPT ![c] = "resolved"]
             /\ start' = [start EXCEPT ![c] = now]
             /\ audio_data' = [audio_data EXCEPT ![BufOf(c)] = <<>>]
             /\ UNCHANGED result
    /\ UNCHANGED <<now, is_running, tpc, cb, fmt, dur, startErr, invalidated,
                   sends, channel, receiverOpen>>
    /\ UNCHANGED <<chunk, pendingErrors, descVars>>

\* line 192: thread::spawn
Spawn(c) ==
    /\ cpc[c] = "resolved"
    /\ cpc' = [cpc EXCEPT ![c] = "poll"]
    /\ tpc' = [tpc EXCEPT ![c] = "build"]
    /\ UNCHANGED <<now, is_running, cb, audio_data, fmt, start, dur, result,
                   startErr, invalidated, sends, channel, receiverOpen>>
    /\ UNCHANGED <<chunk, pendingErrors, descVars>>

\* PollCheck as it would be if the loop slept before its first test
PollCheck_DoWhile(c) ==
    /\ cpc[c] = "poll"
    /\ cpc' = [cpc EXCEPT ![c] = "sleeping"]
    /\ UNCHANGED <<now, is_running, tpc, cb, audio_data, fmt, start, dur,
                   result, startErr, invalidated, sends, channel, receiverOpen>>
    /\ UNCHANGED <<chunk, pendingErrors, descVars>>

\* line 282: while is_running.load(); line 283: sleep begins
PollCheck(c) ==
    /\ cpc[c] = "poll"
    /\ cpc' = [cpc EXCEPT ![c] = IF is_running THEN "sleeping" ELSE "stop"]
    /\ UNCHANGED <<now, is_running, tpc, cb, audio_data, fmt, start, dur,
                   result, startErr, invalidated, sends, channel, receiverOpen>>
    /\ UNCHANGED <<chunk, pendingErrors, descVars>>

\* line 284: the elapsed whole seconds exceed the duration
DurationReached(c) == Timestamp(now) - Timestamp(start[c]) > dur[c]

\* lines 284-287: after the sleep, break when the duration is reached
PollWake(c) ==
    /\ cpc[c] = "woken"
    /\ cpc' = [cpc EXCEPT ![c] = IF DurationReached(c) THEN "stop" ELSE "poll"]
    /\ UNCHANGED <<now, is_running, tpc, cb, audio_data, fmt, start, dur,
                   result, startErr, invalidated, sends, channel, receiverOpen>>
    /\ UNCHANGED <<chunk, pendingErrors, descVars>>

\* Stop as it would be if line 291 stored true
Stop_StoresTrue(c) ==
    /\ cpc[c] = "stop"
    /\ is_running' = TRUE
    /\ cpc' = [cpc EXCEPT ![c] = "join"]
    /\ UNCHANGED <<now, tpc, cb, audio_data, fmt, start, dur, result, startErr,
                   invalidated, sends, channel, receiverOpen>>
    /\ UNCHANGED <<chunk, pendingErrors, descVars>>

\* line 291: is_running.store(false)
Stop(c) ==
    /\ cpc[c] = "stop"
    /\ is_running' = FALSE
    /\ cpc' = [cpc EXCEPT ![c] = "join"]
    /\ UNCHANGED <<now, tpc, cb, audio_data, fmt, start, dur, result, startErr,
                   invalidated, sends, channel, receiverOpen>>
    /\ UNCHANGED <<chunk, pendingErrors, descVars>>

\* Join as it would be if the coordinator did not wait for the session thread
Join_NoWait(c) ==
    /\ cpc[c] = "join"
    /\ cpc' = [cpc EXCEPT ![c] = "send"]
    /\ UNCHANGED <<now, is_running, tpc, cb, audio_data, fmt, start, dur,
                   result, startErr, invalidated, sends, channel, receiverOpen>>
    /\ UNCHANGED <<chunk, pendingErrors, descVars>>

\* line 294: audio_handle.join() returns once the session thread has exited
Join(c) ==
    /\ cpc[c] = "join"
    /\ tpc[c] = "exited"
    /\ cpc' = [cpc EXCEPT ![c] = "send"]
    /\ UNCHANGED <<now, is_running, tpc, cb, audio_data, fmt, start, dur,
                   result, startErr, invalidated, sends, channel, receiverOpen>>
    /\ UNCHANGED <<chunk, pendingErrors, descVars>>

\* Send as it would be if an empty buffer were not worth a package
Send_SkipEmpty(c) ==
    /\ cpc[c] = "send"
    /\ sends' = [sends EXCEPT ![c] =
                    IF audio_data[BufOf(c)] = <<>> THEN @ ELSE @ + 1]
    /\ channel' = IF receiverOpen /\ audio_data[BufOf(c)] # <<>>
                  THEN Append(channel,
                              [device |-> c, data |-> audio_data[BufOf(c)]])
                  ELSE channel
    /\ cpc' = [cpc EXCEPT ![c] = "returned"]
    /\ result' = [result EXCEPT ![c] = "Ok"]
    /\ UNCHANGED <<now, is_running, tpc, cb, audio_data, fmt, start, dur,
                   startErr, invalidated, receiverOpen>>
    /\ UNCHANGED <<chunk, pendingErrors, descVars>>

\* Send as it would be if a failed send were returned to the caller as an error
Send_FailFatal(c) ==
    /\ cpc[c] = "send"
    /\ sends' = [sends EXCEPT ![c] = @ + 1]
    /\ channel' = IF receiverOpen
                  THEN Append(channel,
                              [device |-> c, data |-> audio_data[BufOf(c)]])
                  ELSE channel
    /\ cpc' = [cpc EXCEPT ![c] = "returned"]
    /\ result' = [result EXCEPT ![c] = IF receiverOpen THEN "Ok" ELSE "SendError"]
    /\ UNCHANGED <<now, is_running, tpc, cb, audio_data, fmt, start, dur,
                   startErr, invalidated, receiverOpen>>
    /\ UNCHANGED <<chunk, pendingErrors, descVars>>

\* lines 299-311: lock the buffer (the callback holds the lock only inside
\* its append step), send a copy of it, return Ok(())
Send(c) ==
    /\ cpc[c] = "send"
    /\ sends' = [sends EXCEPT ![c] = @ + 1]
    /\ channel' = IF receiverOpen
                  THEN Append(channel,
                              [device |-> c, data |-> audio_data[BufOf(c)]])
                  ELSE channel
    /\ cpc' = [cpc EXCEPT ![c] = "returned"]
    /\ result' = [result EXCEPT ![c] = "Ok"]
    /\ UNCHANGED <<now, is_running, tpc, cb, audio_data, fmt, start, dur,
                   startErr, invalidated, receiverOpen>>
    /\ UNCHANGED <<chunk, pendingErrors, descVars>>

\* --------------------------------------------------------- session thread

\* lines 193-254 and 271: match on the sample format and build the stream
Build(c) ==
    /\ tpc[c] = "build"
    /\ IF fmt[c] \notin SupportedFormats
       THEN /\ tpc' = [tpc EXCEPT ![c] = "exited"]
            /\ startErr' = [startErr EXCEPT ![c] = "UnsupportedFormat"]
       ELSE \E ok \in BOOLEAN :
            IF ok
            THEN /\ tpc' = [tpc EXCEPT ![c] = "play"]
                 /\ UNCHANGED startErr
            ELSE /\ tpc' = [tpc EXCEPT ![c] = "exited"]
                 /\ startErr' = [startErr EXCEPT ![c] = "BuildFailed"]
    /\ UNCHANGED <<now, is_running, cpc, cb, audio_data, fmt, start, dur,
                   result, invalidated, sends, channel, receiverOpen>>
    /\ UNCHANGED <<chunk, pendingErrors, descVars>>

\* lines 258-260: s.play(); a failure is logged and the thread goes on
Play(c) ==
    /\ tpc[c] = "play"
    /\ \E ok \in BOOLEAN :
        startErr' = [startErr EXCEPT ![c] = IF ok THEN @ ELSE "PlayFailed"]
    /\ tpc' = [tpc EXCEPT ![c] = "keepalive"]
    /\ UNCHANGED <<now, is_running, cpc, cb, audio_data, fmt, start, dur,
                   result, invalidated, sends, channel, receiverOpen>>
    /\ UNCHANGED <<chunk, pendingErrors, descVars>>

\* Keepalive as it would be if the loop did not test the Run Signal
Keepalive_Forever(c) ==
    /\ tpc[c] = "keepalive"
    /\ tpc' = [tpc EXCEPT ![c] = "keepalive"]
    /\ UNCHANGED <<now, is_running, cpc, cb, audio_data, fmt, start, dur,
                   result, startErr, invalidated, sends, channel, receiverOpen>>
    /\ UNCHANGED <<chunk, pendingErrors, descVars>>

\* lines 262-267: the keepalive loop; it sleeps while the Run Signal is set
Keepalive(c) ==
    /\ tpc[c] = "keepalive"
    /\ tpc' = [tpc EXCEPT ![c] = IF LoadWeak(c) THEN "keepalive" ELSE "release"]
    /\ UNCHANGED <<now, is_running, cpc, cb, audio_data, fmt, start, dur,
                   result, startErr, invalidated, sends, channel, receiverOpen>>
    /\ UNCHANGED <<chunk, pendingErrors, descVars>>

\* lines 268-269: s.pause(); drop(s). Dropping the stream stops the callback
\* context: it returns once a callback in flight has returned
Release(c) ==
    /\ tpc[c] = "release"
    /\ cb[c] = "idle"
    /\ tpc' = [tpc EXCEPT ![c] = "exited"]
    /\ UNCHANGED <<now, is_running, cpc, cb, audio_data, fmt, start, dur,
                   result, startErr, invalidated, sends, channel, receiverOpen>>
    /\ UNCHANGED <<chunk, pendingErrors, descVars>>

\* -------------------------------------------------------------- callbacks

\* the n samples of a callback fit the model's buffer bound: a cast that
\* panics appends nothing
HasRoom(c, n) ==
    CastLen(fmt[c], n, TRUE) <= MaxBuf - Len(audio_data[BufOf(c)])

\* CallbackCheck as it would be if the callback did not test the Run Signal
CallbackCheck_NoFlag(c) ==
    /\ StreamLive(c)
    /\ cb[c] = "idle"
    /\ Len(audio_data[BufOf(c)]) < MaxBuf
    /\ \E n \in 1..MaxChunk :
        /\ HasRoom(c, n)
        /\ cb' = [cb EXCEPT ![c] = "checked"]
        /\ chunk' = [chunk EXCEPT ![c] = n]
    /\ UNCHANGED <<now, is_running, cpc, tpc, audio_data, fmt, start, dur,
                   result, startErr, invalidated, sends, channel, receiverOpen>>
    /\ UNCHANGED <<pendingErrors, descVars>>

\* lines 197-200: the data callback is invoked with n samples and loads the
\* Run Signal
CallbackCheck(c) ==
    /\ StreamLive(c)
    /\ cb[c] = "idle"
    /\ Len(audio_data[BufOf(c)]) < MaxBuf
    /\ \E n \in 1..MaxChunk :
        /\ HasRoom(c, n)
        /\ IF LoadWeak(c)
           THEN /\ cb' = [cb EXCEPT ![c] = "checked"]
                /\ chunk' = [chunk EXCEPT ![c] = n]
           ELSE UNCHANGED <<cb, chunk>>
    /\ UNCHANGED <<now, is_running, cpc, tpc, audio_data, fmt, start, dur,
                   result, startErr, invalidated, sends, channel, receiverOpen>>
    /\ UNCHANGED <<pendingErrors, descVars>>

\* lines 201-202: blocking_lock, cast the n incoming samples, extend, unlock.
\* A panicking cast unwinds out of the callback and appends nothing.
CallbackAppend(c) ==
    /\ cb[c] = "checked"
    /\ \E aligned \in BOOLEAN :
        LET k == CastLen(fmt[c], chunk[c], aligned) IN
        /\ k <= MaxBuf - Len(audio_data[BufOf(c)])
        /\ audio_data' = [audio_data EXCEPT ![BufOf(c)] =
                            IF k < 0 THEN @ ELSE @ \o Samples(c, k)]
    /\ cb' = [cb EXCEPT ![c] = "idle"]
    /\ chunk' = [chunk EXCEPT ![c] = 0]
    /\ UNCHANGED <<now, is_running, cpc, tpc, fmt, start, dur, result,
                   startErr, invalidated, sends, channel, receiverOpen>>
    /\ UNCHANGED <<pendingErrors, descVars>>

\* ErrorCallback as it would be if every stream error cleared the Run Signal
ErrorCallback_AllFatal(c) ==
    /\ StreamLive(c)
    /\ \E fatal \in BOOLEAN :
        IF fatal
        THEN /\ invalidated' = [invalidated EXCEPT ![c] = TRUE]
             /\ is_running' = IF InCall(c) THEN FALSE ELSE is_running
             /\ UNCHANGED pendingErrors
        ELSE /\ pendingErrors > 0
             /\ pendingErrors' = pendingErrors - 1
             /\ is_running' = IF InCall(c) THEN FALSE ELSE is_running
             /\ UNCHANGED invalidated
    /\ UNCHANGED <<now, cpc, tpc, cb, audio_data, fmt, start, dur, result,
                   startErr, sends, channel, receiverOpen>>
    /\ UNCHANGED <<chunk, descVars>>

\* lines 181-189: the error callback logs the error; fatal: the message
\* carries "device is no longer valid", and the Run Signal is cleared
ErrorCallback(c) ==
    /\ StreamLive(c)
    /\ \E fatal \in BOOLEAN :
        IF fatal
        THEN /\ invalidated' = [invalidated EXCEPT ![c] = TRUE]
             /\ is_running' = IF InCall(c) THEN FALSE ELSE is_running
             /\ UNCHANGED pendingErrors
        ELSE /\ pendingErrors > 0
             /\ pendingErrors' = pendingErrors - 1
             /\ UNCHANGED <<invalidated, is_running>>
    /\ UNCHANGED <<now, cpc, tpc, cb, audio_data, fmt, start, dur, result,
                   startErr, sends, channel, receiverOpen>>
    /\ UNCHANGED <<chunk, descVars>>

\* ------------------------------------------------------------ environment

\* the caller requests an early stop
CallerStop ==
    /\ is_running
    /\ is_running' = FALSE
    /\ UNCHANGED <<now, cpc, tpc, cb, audio_data, fmt, start, dur, result,
                   startErr, invalidated, sends, channel, receiverOpen>>
    /\ UNCHANGED <<chunk, pendingErrors, descVars>>

\* the caller sets the Run Signal again, between sessions only
CallerArm ==
    /\ ~is_running
    /\ \A c \in Calls : ~InCall(c)
    /\ is_running' = TRUE
    /\ UNCHANGED <<now, cpc, tpc, cb, audio_data, fmt, start, dur, result,
                   startErr, invalidated, sends, channel, receiverOpen>>
    /\ UNCHANGED <<chunk, pendingErrors, descVars>>

\* the consumer drops the receiving half of the channel
ReceiverDrop ==
    /\ receiverOpen
    /\ receiverOpen' = FALSE
    /\ UNCHANGED <<now, is_running, cpc, tpc, cb, audio_data, fmt, start, dur,
                   result, startErr, invalidated, sends, channel>>
    /\ UNCHANGED <<chunk, pendingErrors, descVars>>

\* the coordinator of call c has a step to take that is no sleep
Urgent(c) ==
    \/ cpc[c] \in {"resolved", "poll", "woken", "stop", "send"}
    \/ (cpc[c] = "join" /\ tpc[c] = "exited")

\* one poll interval passes; every sleeping coordinator wakes (line 283)
\* the clock is read at lines 172 and 284 only: it is tracked while a call
\* can still start or a coordinator sleeps in its poll loop
Tick ==
    /\ now < MaxTime
    /\ \A c \in Calls : ~Urgent(c)
    /\ \E c \in Calls : cpc[c] = "sleeping" \/ (cpc[c] = "idle" /\ now < LastStart)
    /\ now' = now + 1
    /\ cpc' = [c \in Calls |-> IF cpc[c] = "sleeping" THEN "woken" ELSE cpc[c]]
    /\ UNCHANGED <<is_running, tpc, cb, audio_data, fmt, start, dur, result,
                   startErr, invalidated, sends, channel, receiverOpen>>
    /\ UNCHANGED <<chunk, pendingErrors, descVars>>

Next ==
    \/ \E c \in Calls : Resolve(c)
    \/ \E c \in Calls : Spawn(c)
    \/ \E c \in Calls : PollCheck(c)
    \/ \E c \in Calls : PollWake(c)
    \/ \E c \in Calls : Stop(c)
    \/ \E c \in Calls : Join(c)
    \/ \E c \in Calls : Send(c)
    \/ \E c \in Calls : Build(c)
    \/ \E c \in Calls : Play(c)
    \/ \E c \in Calls : Keepalive(c)
    \/ \E c \in Calls : Release(c)
    \/ \E c \in Calls : CallbackCheck(c)
    \/ \E c \in Calls : CallbackAppend(c)
    \/ \E c \in Calls : ErrorCallback(c)
    \/ CallerStop
    \/ CallerArm
    \/ ReceiverDrop
    \/ Tick

Spec == Init /\ [][Next]_vars

SpecPair == InitPair /\ [][Next]_vars

\* the steps of the coordinator of call c once its device is resolved
Coordinator(c) ==
    \/ Spawn(c)
    \/ PollCheck(c)
    \/ PollWake(c)
    \/ Stop(c)
    \/ Join(c)
    \/ Send(c)

\* the steps of the session thread of call c
SessionThread(c) ==
    \/ Build(c)
    \/ Play(c)
    \/ Keepalive(c)
    \/ Release(c)

\* fair scheduling: a coordinator, a session thread or a data callback that
\* can take a step takes it, and the wall clock advances; the caller, the
\* platform's error reports and the receiver are under no obligation
Fairness ==
    /\ \A c \in Calls : WF_vars(Coordinator(c))
    /\ \A c \in Calls : WF_vars(SessionThread(c))
    /\ \A c \in Calls : WF_vars(CallbackAppend(c))
    /\ WF_vars(Tick)

SpecLive == Init /\ [][Next]_vars /\ Fairness

\* -------------------------------------------- descriptor parse and display

\* no call of record_and_transcribe is made; either a device string is given
\* to parse_audio_device, or a descriptor with a non-empty name is displayed,
\* parsed back and looked up
InitParse ==
    /\ InitCommon
    /\ is_running = FALSE
    /\ cpc = [c \in Calls |-> "never"]
    /\ dur = [c \in Calls |-> 0]
    /\ fmt = [c \in Calls |-> "F32"]
    /\ pendingErrors = 0
    /\ parsed = NoResult
    /\ shown = <<>>
    /\ reparsed = NoResult
    /\ lookup = NoLookup
    /\ \/ /\ dpc = "text"
          /\ text \in Texts
          /\ desc = NoDevice
       \/ /\ dpc = "desc"
          /\ text = <<>>
          /\ desc \in {NewDevice(n, t) : n \in Texts \ {<<>>}, t \in DeviceTypes}

\* lines 101-103: parse_audio_device(text)
ParseAudioDevice ==
    /\ dpc = "text"
    /\ parsed' = FromName(text)
    /\ dpc' = "parsed"
    /\ UNCHANGED <<text, desc, shown, reparsed, lookup>>
    /\ UNCHANGED <<now, is_running, cpc, tpc, cb, audio_data, fmt, start, dur,
                   result, startErr, invalidated, sends, channel, receiverOpen,
                   chunk, pendingErrors>>

\* lines 87-99: desc.to_string()
Show ==
    /\ dpc = "desc"
    /\ shown' = to_string(desc)
    /\ dpc' = "shown"
    /\ UNCHANGED <<text, desc, parsed, reparsed, lookup>>
    /\ UNCHANGED <<now, is_running, cpc, tpc, cb, audio_data, fmt, start, dur,
                   result, startErr, invalidated, sends, channel, receiverOpen,
                   chunk, pendingErrors>>

\* lines 62-85: AudioDevice::from_name of the displayed descriptor
Reparse ==
    /\ dpc = "shown"
    /\ reparsed' = FromName(shown)
    /\ dpc' = "reparsed"
    /\ UNCHANGED <<text, desc, parsed, shown, lookup>>
    /\ UNCHANGED <<now, is_running, cpc, tpc, cb, audio_data, fmt, start, dur,
                   result, startErr, invalidated, sends, channel, receiverOpen,
                   chunk, pendingErrors>>

\* lines 115-147: get_device_and_config chooses the default-device branch or
\* the lookup by name
Lookup ==
    /\ dpc = "reparsed"
    /\ lookup' = [default |-> UsesDefaultBranch(desc), key |-> MatchKey(desc)]
    /\ dpc' = "looked"
    /\ UNCHANGED <<text, desc, parsed, shown, reparsed>>
    /\ UNCHANGED <<now, is_running, cpc, tpc, cb, audio_data, fmt, start, dur,
                   result, startErr, invalidated, sends, channel, receiverOpen,
                   chunk, pendingErrors>>

NextParse ==
    \/ ParseAudioDevice
    \/ Show
    \/ Reparse
    \/ Lookup

SpecParse == InitParse /\ [][NextParse]_vars

\* ------------------------------------------------------------------ claims

\* the join of call c has returned (line 294 is behind the coordinator)
AfterJoin(c) == cpc[c] = "send" \/ (cpc[c] = "returned" /\ result[c] = "Ok")

\* C1: once the coordinator's join has returned, the session thread has
\* terminated with no callback in flight, the Capture Buffer does not change
\* any more, and the package the coordinator sends holds exactly that buffer.
C1_NoAppendAfterJoin ==
    [][\A c \in Calls :
         AfterJoin(c)' =>
            /\ tpc'[c] = "exited"
            /\ cb'[c] = "idle"
            /\ AfterJoin(c) => audio_data'[BufOf(c)] = audio_data[BufOf(c)]
            /\ \A i \in PackagesOf(c)' :
                  channel'[i].data = audio_data'[BufOf(c)]]_vars

\* C1 witness: a call has sent a package of samples its callbacks appended
C1_Witness ==
    \E c \in Calls :
        /\ cpc[c] = "returned"
        /\ tpc[c] = "exited"
        /\ audio_data[BufOf(c)] # <<>>
        /\ \E i \in PackagesOf(c) : channel[i].data = audio_data[BufOf(c)]

\* C2: a call whose session failed to start (unsupported format, stream
\* construction or activation rejected) returns an error.
C2_StartFailureSurfaced ==
    \A c \in Calls :
        (cpc[c] = "returned" /\ startErr[c] # "none") => result[c] # "Ok"

\* C3: a call whose resolution succeeded sends exactly one package, after the
\* session thread has terminated, also when no sample was captured; the
\* channel accepts it whenever its receiver still exists.
C3_ExactlyOnePackage ==
    \A c \in Calls :
        /\ sends[c] <= 1
        /\ Cardinality(PackagesOf(c)) <= sends[c]
        /\ sends[c] = 1 => tpc[c] = "exited"
        /\ (sends[c] = 1 /\ receiverOpen) => Cardinality(PackagesOf(c)) = 1
        /\ cpc[c] = "returned" =>
              IF result[c] \in ResolveErrors
              THEN sends[c] = 0
              ELSE result[c] = "Ok" /\ sends[c] = 1

\* C3 witness: a session stopped by a device invalidation that captured
\* nothing has delivered its one, empty, package
C3_Witness ==
    \E c \in Calls :
        /\ cpc[c] = "returned"
        /\ invalidated[c]
        /\ sends[c] = 1
        /\ \E i \in PackagesOf(c) : channel[i].data = <<>>

\* C4: when a device-invalid error arrived while the session was streaming,
\* the coordinator leaves its poll loop no later than max_duration plus one
\* poll interval after the recording started.
C4_InvalidationEndsPollInTime ==
    \A c \in Calls :
        (invalidated[c] /\ cpc[c] = "stop") =>
            /\ ~is_running
            /\ now - start[c] <= dur[c] * TicksPerSec + 1

\* C5 as claimed: the Capture Buffer never grows in a step taken from a state
\* where the Run Signal is false.
C5_NoGrowthWhenCleared ==
    [][\A c \in Calls :
         Len(audio_data'[BufOf(c)]) > Len(audio_data[BufOf(c)]) =>
            is_running]_vars

\* C5 as amended: the Capture Buffer grows only by a data callback that has
\* passed its check of the Run Signal, a callback passes the check only in a
\* state where the Run Signal is set, and a callback invoked while the Run
\* Signal is false appends nothing.
C5_GrowthOnlyAfterCheck ==
    [][\A c \in Calls :
         /\ Len(audio_data'[BufOf(c)]) > Len(audio_data[BufOf(c)]) =>
                cb[c] = "checked" /\ cb'[c] = "idle"
         /\ (cb[c] = "idle" /\ cb'[c] = "checked") => is_running
         /\ (cb[c] = "idle" /\ ~is_running) =>
                Len(audio_data'[BufOf(c)]) <= Len(audio_data[BufOf(c)])]_vars

\* C5 witness: the Run Signal was cleared between a callback's check and its
\* append, with samples already in the buffer
C5_Witness ==
    \E c \in Calls :
        /\ cb[c] = "checked"
        /\ ~is_running
        /\ audio_data[BufOf(c)] # <<>>

\* C6: while a call is in progress, a Run Signal that is false stays false.
C6_RunSignalMonotone ==
    [][((\E c \in Calls : InCall(c)) /\ ~is_running) => ~is_running']_vars

\* C6 witness: the error callback cleared the Run Signal and the coordinator
\* has gone on to store false itself
C6_Witness ==
    \E c \in Calls :
        /\ invalidated[c]
        /\ cpc[c] = "join"
        /\ StreamLive(c)
        /\ ~is_running

\* the Run Signal is clear in call c, no callback is in flight and nothing
\* has been captured
ClearedEmpty(c) ==
    /\ InCall(c)
    /\ ~is_running
    /\ cb[c] = "idle"
    /\ audio_data[BufOf(c)] = <<>>

\* call c returned success and sent one package without samples
ReturnedEmpty(c) ==
    /\ cpc[c] = "returned"
    /\ result[c] = "Ok"
    /\ sends[c] = 1
    /\ audio_data[BufOf(c)] = <<>>
    /\ \A i \in PackagesOf(c) : channel[i].data = <<>>

\* C7: once the Run Signal is clear in a call that has captured nothing and
\* has no callback in flight (in particular when it is clear at entry), every
\* later step keeps the buffer empty, whatever callbacks fire, until the call
\* returns success with an empty package.
C7_ClearedFirstGivesEmpty ==
    [][\A c \in Calls :
         ClearedEmpty(c) => (ClearedEmpty(c)' \/ ReturnedEmpty(c)')]_vars

\* C7 witness: a call whose stream started and converts every callback
\* returned an empty package before its duration had elapsed
C7_Witness ==
    \E c \in Calls :
        /\ ReturnedEmpty(c)
        /\ PackagesOf(c) # {}
        /\ startErr[c] = "none"
        /\ fmt[c] = "F32"
        /\ dur[c] > 0
        /\ Timestamp(now) - Timestamp(start[c]) <= dur[c]

\* C8: with max_duration = 0 and the Run Signal left set, the coordinator
\* leaves its poll loop after at most one poll interval.
C8_ZeroDurationOnePoll ==
    \A c \in Calls :
        (dur[c] = 0 /\ cpc[c] = "stop" /\ is_running) => now - start[c] <= 1

\* C9: every sample in a call's buffer and in a call's package was appended
\* by a data callback of that call's own stream.
C9_NoLeakBetweenCalls ==
    \A c \in Calls :
        /\ \A j \in 1..Len(audio_data[c]) : audio_data[c][j] = c
        /\ \A i \in PackagesOf(c) :
              \A j \in 1..Len(channel[i].data) : channel[i].data[j] = c

\* C9 witness: both calls have delivered a package that holds samples
C9_Witness ==
    /\ Len(channel) = 2
    /\ channel[1].device # channel[2].device
    /\ channel[1].data # <<>>
    /\ channel[2].data # <<>>

\* C10: a call that returns a resolution error has spawned no session thread,
\* built no stream, sent no package, and the step that returns the error
\* is taken from the call's entry and leaves the Run Signal as it was.
C10_ResolveFailureAcquiresNothing ==
    [][\A c \in Calls :
         result'[c] \in ResolveErrors =>
            /\ cpc'[c] = "returned"
            /\ tpc'[c] = "none"
            /\ ~StreamLive(c)'
            /\ cb'[c] = "idle"
            /\ audio_data'[BufOf(c)] = <<>>
            /\ sends'[c] = 0
            /\ PackagesOf(c)' = {}
            /\ result[c] \notin ResolveErrors =>
                  (cpc[c] = "idle" /\ is_running' = is_running)]_vars

\* C10 witness: a call has returned a resolution error and the Run Signal is
\* still set
C10_Witness ==
    \E c \in Calls :
        /\ cpc[c] = "returned"
        /\ result[c] \in ResolveErrors
        /\ is_running

\* C11: the step that sends the package returns success whether or not the
\* channel has a receiver, and in both cases it is taken with the Run Signal
\* cleared, the session thread joined and the stream released; a send without
\* a receiver leaves the channel as it was.
C11_SendFailureNotFatal ==
    [][\A c \in Calls :
         (cpc[c] = "send" /\ cpc'[c] = "returned") =>
            /\ result'[c] = "Ok"
            /\ sends'[c] = sends[c] + 1
            /\ ~is_running'
            /\ tpc'[c] = "exited"
            /\ ~StreamLive(c)'
            /\ cb'[c] = "idle"
            /\ ~receiverOpen => channel' = channel]_vars

\* C11 witness: a call returned success although its send found no receiver
C11_Witness ==
    \E c \in Calls :
        /\ cpc[c] = "returned"
        /\ result[c] = "Ok"
        /\ sends[c] = 1
        /\ ~receiverOpen
        /\ PackagesOf(c) = {}
        /\ tpc[c] = "exited"
        /\ ~is_running

\* C12 as claimed: parsing what a descriptor with a non-empty name displays
\* succeeds and returns that descriptor, whatever whitespace the name carries.
C12_ParseInvertsDisplay ==
    dpc \in {"reparsed", "looked"} =>
        reparsed = OkDevice(desc.name, desc.device_type)

\* C12 as amended: parsing what a descriptor displays returns that descriptor
\* when its name is non-empty and has no leading or trailing whitespace, also
\* when the name itself ends in "(input)" or "(output)".
C12_ParseInvertsDisplayTrimmed ==
    (dpc \in {"reparsed", "looked"} /\ Trim(desc.name) = desc.name) =>
        reparsed = OkDevice(desc.name, desc.device_type)

\* C12 witness: a descriptor whose name ends in "(input)" was displayed and
\* parsed back to itself
C12_Witness ==
    /\ dpc = "reparsed"
    /\ EndsWith(desc.name, Chars_input)
    /\ Len(desc.name) > Len(Chars_input)
    /\ desc.device_type = "Input"
    /\ reparsed = OkDevice(desc.name, desc.device_type)

\* the name left when the suffix is removed once, and when it is removed as
\* often as it matches in any casing
RECURSIVE StripAnyCase(_, _)
StripAnyCase(str, pat) ==
    IF EndsWith(ToLowercase(str), pat)
    THEN StripAnyCase(SubSeq(str, 1, Len(str) - Len(pat)), pat)
    ELSE str
StrippedNames(str, pat) ==
    { Trim(SubSeq(str, 1, Len(str) - Len(pat))), Trim(StripAnyCase(str, pat)) }

\* C13: for a device string that ends in "(input)" or "(output)" in any
\* casing, from_name returns the matching direction and the name without the
\* suffix and the whitespace around it.
C13_SuffixAnyCaseStripped ==
    (dpc = "parsed" /\ Trim(text) # <<>>) =>
        /\ EndsWith(ToLowercase(text), Chars_input) =>
              /\ parsed.ok
              /\ parsed.device_type = "Input"
              /\ parsed.name \in StrippedNames(text, Chars_input)
        /\ (~EndsWith(ToLowercase(text), Chars_input)
             /\ EndsWith(ToLowercase(text), Chars_output)) =>
              /\ parsed.ok
              /\ parsed.device_type = "Output"
              /\ parsed.name \in StrippedNames(text, Chars_output)

\* C14: the device string "default" is accepted by the parser, and a
\* descriptor named "default" is resolved by the default-device branch.
C14_DefaultSentinel ==
    /\ (dpc = "parsed" /\ text = Chars_default) => parsed.ok
    /\ (dpc = "looked" /\ desc.name = Chars_default) => lookup.default

\* C15: a descriptor that from_name returns has a name of length at least 1.
C15_ParsedNameNonEmpty ==
    (dpc = "parsed" /\ parsed.ok) => Len(parsed.name) >= 1

\* C16: a session whose start failed (unsupported encoding, stream
\* construction rejected, or play rejected) is never in the keepalive loop and
\* holds no live stream.
C16_StartFailureNeverStreams ==
    \A c \in Calls :
        startErr[c] # "none" =>
            /\ tpc[c] \notin {"keepalive", "release"}
            /\ ~StreamLive(c)

\* C17: the error callback of a stream error without the device-invalid
\* marker leaves the Run Signal, the Capture Buffer, the session thread, the
\* coordinator, the data callback in flight and the channel as they were, so
\* the stream stays alive and the data callback's check gives what it gave.
C17_NonFatalErrorChangesNothing ==
    [][pendingErrors' # pendingErrors =>
         /\ is_running' = is_running
         /\ audio_data' = audio_data
         /\ tpc' = tpc
         /\ cpc' = cpc
         /\ cb' = cb
         /\ chunk' = chunk
         /\ invalidated' = invalidated
         /\ startErr' = startErr
         /\ result' = result
         /\ channel' = channel
         /\ \A c \in Calls :
              /\ StreamLive(c)' = StreamLive(c)
              /\ LoadWeak(c)' = LoadWeak(c)]_vars

\* C17 witness: a non-fatal error was reported, and the session is in its
\* keepalive loop with the Run Signal set and a data callback that passed the
\* check about to append
C17_Witness ==
    /\ pendingErrors < MaxNonFatal
    /\ \E c \in Calls :
        /\ tpc[c] = "keepalive"
        /\ cpc[c] = "sleeping"
        /\ is_running
        /\ ~invalidated[c]
        /\ cb[c] = "checked"

\* C18: a data callback that was handed n samples while the Run Signal was
\* set, in any of the four supported encodings, leaves the buffer as it was
\* followed by n new elements.
C18_CallbackAppendsEverySample ==
    [][\A c \in Calls :
         (cb[c] = "checked" /\ cb'[c] = "idle"
            /\ fmt[c] \in SupportedFormats) =>
              audio_data'[BufOf(c)] =
                  audio_data[BufOf(c)] \o Samples(c, chunk[c])]_vars

\* C19: the step that returns from a call whose device was resolved leaves
\* the Run Signal false, and no step of a call sets it; a call entered while
\* the Run Signal is false has an empty buffer, never sleeps in its poll loop,
\* and keeps the buffer empty until it returns success with an empty package.
C19_ReturnLeavesSignalCleared ==
    [][\A c \in Calls :
         /\ (cpc[c] = "send" /\ cpc'[c] = "returned") => ~is_running'
         /\ (~is_running /\ is_running') => \A d \in Calls : ~InCall(d)
         /\ (cpc[c] = "idle" /\ cpc'[c] = "resolved" /\ ~is_running) =>
               ClearedEmpty(c)'
         /\ (cpc[c] = "poll" /\ ~is_running) => cpc'[c] \in {"poll", "stop"}
         /\ ClearedEmpty(c) => (ClearedEmpty(c)' \/ ReturnedEmpty(c)')]_vars

\* C19 witness: a call that recorded until its duration was reached has
\* delivered a package with samples; the other call was entered after that
\* second had ended, with the Run Signal still false, and has delivered an
\* empty package
C19_Witness ==
    \E c, d \in Calls :
        /\ c # d
        /\ cpc[d] = "returned" /\ result[d] = "Ok"
        /\ ~invalidated[d]
        /\ Timestamp(start[c]) > Timestamp(start[d]) + dur[d]
        /\ ReturnedEmpty(c)
        /\ Len(channel) = 2
        /\ channel[1].device = d /\ channel[1].data # <<>>
        /\ channel[2].device = c /\ channel[2].data = <<>>
        /\ ~is_running

\* C20: under fair scheduling and an advancing clock, every call that has
\* spawned its session thread eventually returns, and a data callback that
\* is about to take the buffer mutex never finds the coordinator past its
\* join, where the coordinator takes that mutex.
C20_SpawnedCallReturns ==
    /\ \A c \in Calls : (tpc[c] # "none") ~> (cpc[c] = "returned")
    /\ [](\A c \in Calls : cb[c] = "checked" => cpc[c] \notin {"send", "returned"})

\* C20 witness: a call whose Run Signal was never cleared from outside and
\* whose stream started has returned after its duration, with samples
C20_Witness ==
    \E c \in Calls :
        /\ cpc[c] = "returned"
        /\ tpc[c] = "exited"
        /\ startErr[c] = "none"
        /\ ~invalidated[c]
        /\ dur[c] = MaxDuration
        /\ Timestamp(now) - Timestamp(start[c]) > dur[c]
        /\ \E i \in PackagesOf(c) : channel[i].data # <<>>

====
